---- MODULE Spec2Model ----
(***************************************************************************)
(* Knowledge-node store of src/lib/actions.ts: node hashes, the registry   *)
(* set 'nodes' and the keyword index sets 'keyword:<token>' kept in a      *)
(* Redis-compatible backend, and the server actions that maintain them.    *)
(*                                                                         *)
(* Text is a sequence of one-character strings.  A hash is a function from *)
(* the field names it holds to their values; the hash of a key that does   *)
(* not exist is the empty function.                                        *)
(***************************************************************************)
EXTENDS Integers, Sequences, FiniteSets, TLC

\* ------------------------------------------------------------------ bounds
MaxNodes == 2        \* ids uuidv4 hands out in one behaviour
MaxFaults == 1       \* backend faults injected in one behaviour (SpecFault)
MaxTokens == 11      \* words of a generated text (SpecTok)
MaxCalls == 3        \* calls started in one behaviour (SpecConc, SpecSteps)

\* ------------------------------------------------------- program constants
MinContentLength == 3    \* z.string().min(3)
MinWordLength == 2       \* word.length > 2
KeywordCap == 10         \* .slice(0, 10)

\* -------------------------------------------------------------------- text
Whitespace == {" "}
Digits == {"1", "2", "3"}
Punctuation == {".", ",", "!", "?"}

Sp == <<" ">>
W_abc == <<"a", "b", "c">>
W_http == <<"h", "t", "t", "p">>
W_AbBang == <<"A", "b", "!">>
W_ab == <<"a", "b">>
W_12 == <<"1", "2">>
W_123 == <<"1", "2", "3">>

\* Content strings handed to create and update.
Contents ==
    { W_12,                          \* 2 characters: fails validation
      W_abc,                         \* one keyword
      W_http \o Sp \o W_abc,         \* starts with http: type url
      W_AbBang \o Sp \o W_123 }      \* "Ab! 123"

\* Content strings handed to create and update while the backend misbehaves.
FaultContents ==
    { W_abc,
      W_AbBang \o Sp \o W_abc }      \* "Ab! abc"

\* Query strings handed to search.
Queries ==
    { Sp,                            \* blank query
      W_abc,
      W_ab,
      W_http \o Sp \o W_abc,         \* two tokens
      W_AbBang }

\* "Check out https://example.com for fast databases"
ScenarioA ==
    <<"C", "h", "e", "c", "k", " ", "o", "u", "t", " ">>
    \o <<"h", "t", "t", "p", "s", ":", "/", "/", "e", "x", "a", "m", "p", "l", "e", ".", "c", "o", "m">>
    \o <<" ", "f", "o", "r", " ", "f", "a", "s", "t", " ">>
    \o <<"d", "a", "t", "a", "b", "a", "s", "e", "s">>

\* The words of the texts generated for the tokenizer: wax, wbx, ...
Letters == <<"a", "b", "c", "d", "e", "f", "g", "h", "i", "j", "k", "l", "m">>
Word(n) == <<"w", Letters[n], "x">>

\* Words put in the place of one word of a generated text.
OddWords ==
    { W_AbBang, W_12, W_123,
      <<"1", "2", ".">>,             \* "12."
      <<".", ".", ".">>,             \* "..."
      <<"w", "a", "x", "?">> }       \* "wax?"

\* words[1] words[2] ... with one space between two words
RECURSIVE Join(_)
Join(words) ==
    IF Len(words) = 0 THEN <<>>
    ELSE IF Len(words) = 1 THEN words[1]
    ELSE words[1] \o Sp \o Join(Tail(words))

\* Texts handed to the tokenizer: wax wbx ... with one word replaced, the
\* strings of the store's calls, Scenario A and strings with surrounding and
\* repeated whitespace and an upper-case Http.
TokTexts ==
    { Join([k \in 1..n |-> IF k = p THEN r ELSE Word(k)]) :
        n \in 1..MaxTokens, p \in 1..MaxTokens,
        r \in OddWords \cup {Word(j) : j \in 1..MaxTokens} }
    \cup Contents \cup FaultContents \cup Queries
    \cup { ScenarioA,
           Sp \o W_abc \o Sp \o Sp \o W_http \o Sp,
           <<"H", "t", "t", "p">> \o Sp \o W_abc,
           W_http,
           W_abc \o Sp \o W_http \o <<":">> }

\* String.prototype.toLowerCase on the characters in use.
ToLowerChar(c) ==
    CASE c = "A" -> "a"
      [] c = "C" -> "c"
      [] c = "H" -> "h"
      [] OTHER -> c

toLowerCase(s) == [i \in 1..Len(s) |-> ToLowerChar(s[i])]

\* s.split(/\s+/): the pieces between maximal runs of whitespace, the empty
\* pieces before a leading run and after a trailing run included.
RECURSIVE SplitFrom(_, _, _, _, _)
SplitFrom(s, i, cur, acc, inRun) ==
    IF i > Len(s) THEN Append(acc, cur)
    ELSE IF s[i] \in Whitespace
         THEN IF inRun THEN SplitFrom(s, i + 1, cur, acc, TRUE)
              ELSE SplitFrom(s, i + 1, <<>>, Append(acc, cur), TRUE)
         ELSE SplitFrom(s, i + 1, Append(cur, s[i]), acc, FALSE)

split(s) == SplitFrom(s, 1, <<>>, <<>>, FALSE)

\* /^\d+$/.test(word)
IsNumeric(word) == Len(word) > 0 /\ \A i \in 1..Len(word) : word[i] \in Digits

\* word.replace(/[.,!?]/g, '')
StripPunctuation(word) == SelectSeq(word, LAMBDA c : c \notin Punctuation)

\* [...new Set(list)]: first occurrences, in order.
RECURSIVE UniqueFrom(_, _, _)
UniqueFrom(list, i, acc) ==
    IF i > Len(list) THEN acc
    ELSE IF \E j \in 1..Len(acc) : acc[j] = list[i]
         THEN UniqueFrom(list, i + 1, acc)
         ELSE UniqueFrom(list, i + 1, Append(acc, list[i]))

Unique(list) == UniqueFrom(list, 1, <<>>)

\* list.slice(0, n)
Slice(list, n) == SubSeq(list, 1, IF Len(list) < n THEN Len(list) ELSE n)

Range(list) == {list[i] : i \in 1..Len(list)}

\* The filter of extractKeywords.
KeepsWord(word) == Len(word) > MinWordLength /\ ~IsNumeric(word)

extractKeywords(content) ==
    LET words == SelectSeq(split(toLowerCase(content)), KeepsWord)
        stripped == [i \in 1..Len(words) |-> StripPunctuation(words[i])]
    IN  Unique(Slice(stripped, KeywordCap))

\* query.trim() is empty
IsBlank(s) == \A i \in 1..Len(s) : s[i] \in Whitespace

\* The filter of searchNodes.
KeepsTerm(term) == Len(term) > MinWordLength

\* The search terms of searchNodes.
searchTerms(query) == Unique(SelectSeq(split(toLowerCase(query)), KeepsTerm))

\* Mutation: content.includes('http')
StartsWithHttp_Anywhere(content) ==
    \E i \in 1..(Len(content) - 3) : SubSeq(content, i, i + 3) = W_http

\* content.startsWith('http')
StartsWithHttp(content) == Len(content) >= 4 /\ SubSeq(content, 1, 4) = W_http

NodeType(content) == IF StartsWithHttp(content) THEN "url" ELSE "note"

\* --------------------------------------------------------------- identifiers
NodeIds == 1..MaxNodes    \* well-formed UUIDs
BadId == 0                \* an id string that is no UUID

\* z.string().uuid()
IsUuid(nodeId) == nodeId \in NodeIds

\* Mutation: the length check off by one.
ContentValid_OffByOne(content) == Len(content) >= MinContentLength - 1

\* z.string().min(3)
ContentValid(content) == Len(content) >= MinContentLength

\* ------------------------------------------------------------ stored values
EmptyHash == [f \in {} |-> 0]

\* JSON.stringify of a keyword list, and text that is no JSON.
JsonStringify(keywords) == [json |-> keywords]
MalformedJson == [raw |-> "not json"]

JsonParses(text) == "json" \in DOMAIN text
JsonParse(text) == text.json

Null == [null |-> TRUE]

\* Mutation: a keywords field that does not parse reads as '[]'.
parseNode_Lenient(redisResult) ==
    IF DOMAIN redisResult = {} THEN Null
    ELSE [f \in DOMAIN redisResult \cup {"keywords"} |->
             IF f = "keywords"
             THEN IF "keywords" \in DOMAIN redisResult /\ JsonParses(redisResult.keywords)
                  THEN JsonParse(redisResult.keywords)
                  ELSE <<>>
             ELSE redisResult[f]]

\* parseNode: null for an empty hash and for a keywords field JSON.parse
\* rejects; a missing keywords field reads as '[]'.
parseNode(redisResult) ==
    IF DOMAIN redisResult = {} THEN Null
    ELSE IF "keywords" \notin DOMAIN redisResult
         THEN [f \in DOMAIN redisResult \cup {"keywords"} |->
                  IF f = "keywords" THEN <<>> ELSE redisResult[f]]
         ELSE IF ~JsonParses(redisResult.keywords) THEN Null
              ELSE [f \in DOMAIN redisResult |->
                       IF f = "keywords" THEN JsonParse(redisResult.keywords)
                       ELSE redisResult[f]]

\* --------------------------------------------------------- backend commands
HSet(nodeId, fields) == [cmd |-> "hset", id |-> nodeId, fields |-> fields]
SAddNodes(nodeId) == [cmd |-> "sadd", key |-> "nodes", id |-> nodeId]
SRemNodes(nodeId) == [cmd |-> "srem", key |-> "nodes", id |-> nodeId]
SAddKeyword(keyword, nodeId) ==
    [cmd |-> "sadd", key |-> "keyword", keyword |-> keyword, id |-> nodeId]
SRemKeyword(keyword, nodeId) ==
    [cmd |-> "srem", key |-> "keyword", keyword |-> keyword, id |-> nodeId]
Del(nodeId) == [cmd |-> "del", id |-> nodeId]

\* HSET merges the given fields into the hash.
MergeFields(hash, fields) ==
    [f \in DOMAIN hash \cup DOMAIN fields |->
        IF f \in DOMAIN fields THEN fields[f] ELSE hash[f]]

\* One command applied to the store s = [node, nodes, keyword].
Apply(s, c) ==
    CASE c.cmd = "hset" ->
           [s EXCEPT !.node[c.id] = MergeFields(@, c.fields)]
      [] c.cmd = "del" ->
           [s EXCEPT !.node[c.id] = EmptyHash]
      [] c.cmd = "sadd" /\ c.key = "nodes" ->
           [s EXCEPT !.nodes = @ \cup {c.id}]
      [] c.cmd = "srem" /\ c.key = "nodes" ->
           [s EXCEPT !.nodes = @ \ {c.id}]
      [] c.cmd = "sadd" /\ c.key = "keyword" ->
           [s EXCEPT !.keyword = @ \cup {<<c.keyword, c.id>>}]
      [] c.cmd = "srem" /\ c.key = "keyword" ->
           [s EXCEPT !.keyword = @ \ {<<c.keyword, c.id>>}]

\* pipeline.exec(): the commands in submission order; the ones whose position
\* is in failed answer with an error and change nothing, the rest are applied.
RECURSIVE ExecFrom(_, _, _, _)
ExecFrom(s, batch, i, failed) ==
    IF i > Len(batch) THEN s
    ELSE ExecFrom(IF i \in failed THEN s ELSE Apply(s, batch[i]),
                  batch, i + 1, failed)

Exec(s, batch, failed) == ExecFrom(s, batch, 1, failed)

\* SMEMBERS keyword:<keyword>
KeywordMembers(s, keyword) == {p[2] : p \in {q \in s.keyword : q[1] = keyword}}

\* Mutation: the intersection of the sets instead of their union.
SUnion_Intersection(s, terms) ==
    {id \in NodeIds : \A i \in 1..Len(terms) : id \in KeywordMembers(s, terms[i])}

\* SUNION over the keys keyword:<term>
SUnion(s, terms) == UNION {KeywordMembers(s, terms[i]) : i \in 1..Len(terms)}

\* The orders in which the backend may hand back the members of a set.
Orders(S) ==
    {o \in [1..Cardinality(S) -> S] : \A i, j \in 1..Cardinality(S) : o[i] = o[j] => i = j}

\* ------------------------------------------------------------------- reads
\* The comparator of the two sorts: new Date(b.createdAt).getTime() -
\* new Date(a.createdAt).getTime(); a missing createdAt gives NaN, which the
\* sort reads as 0.
CompareNodes(a, b) ==
    IF "createdAt" \in DOMAIN a /\ "createdAt" \in DOMAIN b
    THEN b.createdAt - a.createdAt
    ELSE 0

\* Mutation: a sort that puts x before the entries it ties with.
InsertSorted_Unstable(sorted, x) ==
    LET after == {j \in 1..Len(sorted) : CompareNodes(sorted[j], x) >= 0}
        pos == IF after = {} THEN Len(sorted) + 1
               ELSE CHOOSE j \in after : \A k \in after : j <= k
    IN  SubSeq(sorted, 1, pos - 1) \o <<x>> \o SubSeq(sorted, pos, Len(sorted))

\* Array.prototype.sort is stable: x, taken from behind the sorted part, goes
\* before the first entry the comparator puts after it.
InsertSorted(sorted, x) ==
    LET after == {j \in 1..Len(sorted) : CompareNodes(sorted[j], x) > 0}
        pos == IF after = {} THEN Len(sorted) + 1
               ELSE CHOOSE j \in after : \A k \in after : j <= k
    IN  SubSeq(sorted, 1, pos - 1) \o <<x>> \o SubSeq(sorted, pos, Len(sorted))

RECURSIVE SortNodes(_)
SortNodes(list) ==
    IF Len(list) <= 1 THEN list
    ELSE InsertSorted(SortNodes(SubSeq(list, 1, Len(list) - 1)), list[Len(list)])

\* The tail shared by getAllNodes and searchNodes: HGETALL each id, parse,
\* drop the nulls, sort.
FetchNodes(s, ids) ==
    LET results == [i \in 1..Len(ids) |-> parseNode(s.node[ids[i]])]
    IN  SortNodes(SelectSeq(results, LAMBDA node : node # Null))

\* getAllNodes, with the order SMEMBERS answered in.
getAllNodes(s, nodeIds) ==
    IF Len(nodeIds) = 0 THEN <<>> ELSE FetchNodes(s, nodeIds)

\* The ids searchNodes fetches for a query.
MatchingNodeIds(s, query) ==
    IF IsBlank(query) \/ Len(searchTerms(query)) = 0 THEN {}
    ELSE SUnion(s, searchTerms(query))

\* searchNodes, with the order SUNION answered in.
searchNodes(s, matchingNodeIds) ==
    IF Len(matchingNodeIds) = 0 THEN <<>> ELSE FetchNodes(s, matchingNodeIds)

\* Every list a call may return, over the orders the backend may answer in.
ListResults(s) == {getAllNodes(s, o) : o \in Orders(s.nodes)}
SearchResults(s, query) ==
    {searchNodes(s, o) : o \in Orders(MatchingNodeIds(s, query))}

\* ------------------------------------------------------------------- state
VARIABLES
    db,        \* the backend: [node, nodes, keyword]
    issued,    \* the ids uuidv4 has handed out
    now,       \* the latest value of the clock
    faults,    \* backend faults injected so far
    deleted,   \* the ids of the deletes that reported success
    lastOp,    \* the last call and what it returned
    tok,       \* a text and what the tokenizer made of it (SpecTok)
    calls      \* the calls in progress, one per client (SpecConc)

vars == <<db, issued, now, faults, deleted, lastOp, tok, calls>>

\* The clients whose calls may overlap.
Clients == {1, 2}

Init ==
    /\ db = [node |-> [id \in NodeIds |-> EmptyHash], nodes |-> {}, keyword |-> {}]
    /\ issued = {}
    /\ now = 0
    /\ faults = 0
    /\ deleted = {}
    /\ lastOp = [op |-> "none"]
    /\ tok = [stage |-> "off"]
    /\ calls = [p \in Clients |-> [pc |-> "idle"]]

\* What a mutating call leaves in lastOp: its arguments, the result object it
\* returned and how the backend behaved during the call.
Returned(op, nodeId, content, success, message, fault) ==
    [op |-> op, nodeId |-> nodeId, content |-> content, success |-> success,
     message |-> message, fault |-> fault]

\* How the backend behaves during one call: "none" (every command succeeds),
\* "read" (HGETALL rejects), "reject" (pipeline.exec() rejects) or "errors"
\* (exec resolves with an error in the answer of at least one command).
FaultKinds == {"read", "reject", "errors"}

\* The positions of the batch whose commands are not applied: none without a
\* fault; one command that answers with an error ("errors"); the commands
\* from some position on, the round trip having broken there ("reject").
Unapplied(batch, fault) ==
    CASE fault = "errors" -> {{i} : i \in 1..Len(batch)}
      [] fault = "reject" -> {i..Len(batch) : i \in 1..(Len(batch) + 1)}
      [] OTHER -> {{}}

\* The try block from the batch on: exec either resolves (success is returned,
\* whatever the per-command answers were) or rejects (the catch block answers).
Submit(op, nodeId, content, batch, fault, okMessage) ==
    \E failed \in Unapplied(batch, fault) :
        /\ fault # "read"
        /\ db' = Exec(db, batch, failed)
        /\ lastOp' = IF fault = "reject"
                     THEN Returned(op, nodeId, content, FALSE, "Database error.", fault)
                     ELSE Returned(op, nodeId, content, TRUE, okMessage, fault)

Fails(op, nodeId, content, message, fault) ==
    /\ lastOp' = Returned(op, nodeId, content, FALSE, message, fault)
    /\ UNCHANGED <<db, issued, now, deleted>>

\* ----------------------------------------------------------------- actions
\* uuidv4(): an id never handed out before. Ids are opaque, so they are
\* handed out in one fixed order.
uuidv4 == {i \in NodeIds \ issued : \A j \in NodeIds \ issued : i <= j}

\* The node addNodeAction builds.
NewNode(nodeId, content, createdAt) ==
    [id |-> nodeId, content |-> content, type |-> NodeType(content),
     createdAt |-> createdAt, keywords |-> extractKeywords(content)]

\* Mutation: the registry add left out.
AddBatch_NoRegistry(node) ==
    <<HSet(node.id, [node EXCEPT !.keywords = JsonStringify(node.keywords)])>>
    \o [i \in 1..Len(node.keywords) |-> SAddKeyword(node.keywords[i], node.id)]

\* The batch of addNodeAction.
AddBatch(node) ==
    <<HSet(node.id, [node EXCEPT !.keywords = JsonStringify(node.keywords)]),
      SAddNodes(node.id)>>
    \o [i \in 1..Len(node.keywords) |-> SAddKeyword(node.keywords[i], node.id)]

\* Mutation: only the registry remove is submitted.
DeleteBatch_RegistryOnly(nodeId, node) == <<SRemNodes(nodeId)>>

\* Mutation: only the record is deleted.
DeleteBatch_RecordOnly(nodeId, node) == <<Del(nodeId)>>

\* Mutation: the record is deleted first.
DeleteBatch_RecordFirst(nodeId, node) ==
    <<Del(nodeId), SRemNodes(nodeId)>>
    \o [i \in 1..Len(node.keywords) |-> SRemKeyword(node.keywords[i], nodeId)]

\* The batch of deleteNodeAction.
DeleteBatch(nodeId, node) ==
    <<SRemNodes(nodeId)>>
    \o [i \in 1..Len(node.keywords) |-> SRemKeyword(node.keywords[i], nodeId)]
    \o <<Del(nodeId)>>

\* Mutations: a side of the keyword diff left empty.
KeywordsToAdd_None(oldKeywords, newKeywords) == <<>>
KeywordsToRemove_None(oldKeywords, newKeywords) == <<>>

\* Mutation: every old keyword is removed from its index.
KeywordsToRemove_All(oldKeywords, newKeywords) == oldKeywords

\* Mutation: every new keyword is added to its index, not only the new ones.
KeywordsToAdd_All(oldKeywords, newKeywords) == newKeywords

\* The keyword diff of editNodeAction.
KeywordsToAdd(oldKeywords, newKeywords) ==
    SelectSeq(newKeywords, LAMBDA kw : kw \notin Range(oldKeywords))

KeywordsToRemove(oldKeywords, newKeywords) ==
    SelectSeq(oldKeywords, LAMBDA kw : kw \notin Range(newKeywords))

\* Mutation: the type is classified again from the new content.
EditBatch_Retype(nodeId, content, oldNode) ==
    LET oldKeywords == Unique(oldNode.keywords)
        newKeywords == Unique(extractKeywords(content))
        keywordsToAdd == KeywordsToAdd(oldKeywords, newKeywords)
        keywordsToRemove == KeywordsToRemove(oldKeywords, newKeywords)
    IN  <<HSet(nodeId, [content |-> content, type |-> NodeType(content),
                        keywords |-> JsonStringify(newKeywords)])>>
        \o [i \in 1..Len(keywordsToAdd) |-> SAddKeyword(keywordsToAdd[i], nodeId)]
        \o [i \in 1..Len(keywordsToRemove) |->
               SRemKeyword(keywordsToRemove[i], nodeId)]

\* The batch of editNodeAction.
EditBatch(nodeId, content, oldNode) ==
    LET oldKeywords == Unique(oldNode.keywords)
        newKeywords == Unique(extractKeywords(content))
        keywordsToAdd == KeywordsToAdd(oldKeywords, newKeywords)
        keywordsToRemove == KeywordsToRemove(oldKeywords, newKeywords)
    IN  <<HSet(nodeId, [content |-> content,
                        keywords |-> JsonStringify(newKeywords)])>>
        \o [i \in 1..Len(keywordsToAdd) |-> SAddKeyword(keywordsToAdd[i], nodeId)]
        \o [i \in 1..Len(keywordsToRemove) |->
               SRemKeyword(keywordsToRemove[i], nodeId)]

addNodeAction(content, createdAt, fault) ==
    IF ~ContentValid(content)
    THEN /\ fault = "none"
         /\ Fails("add", BadId, content, "Content must be at least 3 characters.",
                    "none")
    ELSE \E nodeId \in uuidv4 :
            /\ Submit("add", nodeId, content,
                      AddBatch(NewNode(nodeId, content, createdAt)), fault,
                      "Node added!")
            /\ issued' = issued \cup {nodeId}
            /\ now' = createdAt
            /\ UNCHANGED deleted

deleteNodeAction(nodeId, fault) ==
    IF ~IsUuid(nodeId)
    THEN /\ fault = "none"
         /\ Fails("delete", nodeId, <<>>, "Invalid Node ID.", "none")
    ELSE IF fault = "read"
    THEN Fails("delete", nodeId, <<>>, "Database error.", fault)
    ELSE LET node == parseNode(db.node[nodeId])
         IN  IF node = Null
             THEN /\ fault = "none"
                  /\ Fails("delete", nodeId, <<>>, "Node not found.", "none")
             ELSE /\ Submit("delete", nodeId, <<>>, DeleteBatch(nodeId, node),
                            fault, "Node deleted.")
                  /\ deleted' = IF fault = "reject" THEN deleted
                                ELSE deleted \cup {nodeId}
                  /\ UNCHANGED <<issued, now>>

editNodeAction(nodeId, content, fault) ==
    IF ~IsUuid(nodeId) \/ ~ContentValid(content)
    THEN /\ fault = "none"
         /\ Fails("edit", nodeId, content, "Invalid data.", "none")
    ELSE IF fault = "read"
    THEN Fails("edit", nodeId, content, "Database error.", fault)
    ELSE LET oldNode == parseNode(db.node[nodeId])
         IN  IF oldNode = Null
             THEN /\ fault = "none"
                  /\ Fails("edit", nodeId, content, "Node not found.", "none")
             ELSE /\ Submit("edit", nodeId, content,
                            EditBatch(nodeId, content, oldNode), fault,
                            "Node updated.")
                  /\ UNCHANGED <<issued, now, deleted>>

\* ------------------------------------------------------------ specification
\* new Date(): the clock never runs backwards, and two calls may fall into the
\* same millisecond.
Add == \E content \in Contents, createdAt \in {now, now + 1} :
          addNodeAction(content, createdAt, "none") /\ UNCHANGED <<faults, tok, calls>>

Delete == \E nodeId \in NodeIds \cup {BadId} :
             deleteNodeAction(nodeId, "none") /\ UNCHANGED <<faults, tok, calls>>

Edit == \E nodeId \in NodeIds \cup {BadId}, content \in Contents :
           editNodeAction(nodeId, content, "none") /\ UNCHANGED <<faults, tok, calls>>

List == \E nodeIds \in Orders(db.nodes) :
           /\ lastOp' = [op |-> "list", result |-> getAllNodes(db, nodeIds)]
           /\ UNCHANGED <<db, issued, now, faults, deleted, tok, calls>>

Search == \E query \in Queries :
             \E matchingNodeIds \in Orders(MatchingNodeIds(db, query)) :
                /\ lastOp' = [op |-> "search", query |-> query,
                              result |-> searchNodes(db, matchingNodeIds)]
                /\ UNCHANGED <<db, issued, now, faults, deleted, tok, calls>>

Next == Add \/ Delete \/ Edit \/ List \/ Search

Spec == Init /\ [][Next]_vars

\* ------------------------------------------------- the backend misbehaving
\* A call under a fault uses up one of the faults of the behaviour.
Charge(fault) ==
    /\ IF fault = "none" THEN UNCHANGED faults
       ELSE faults < MaxFaults /\ faults' = faults + 1
    /\ UNCHANGED <<tok, calls>>

\* Here the clock ticks between any two creates.
AddFault == \E content \in FaultContents, fault \in {"none"} \cup FaultKinds :
               addNodeAction(content, now + 1, fault) /\ Charge(fault)

DeleteFault == \E nodeId \in NodeIds, fault \in {"none"} \cup FaultKinds :
                  deleteNodeAction(nodeId, fault) /\ Charge(fault)

EditFault == \E nodeId \in NodeIds, content \in FaultContents,
                fault \in {"none"} \cup FaultKinds :
                editNodeAction(nodeId, content, fault) /\ Charge(fault)

\* Another client of the backend leaves text that is no JSON in the keywords
\* field of a stored node.
Corrupt == \E nodeId \in NodeIds :
              /\ DOMAIN db.node[nodeId] # {}
              /\ db' = [db EXCEPT !.node[nodeId] =
                           MergeFields(@, [keywords |-> MalformedJson])]
              /\ Charge("corrupt")
              /\ lastOp' = [op |-> "corrupt", nodeId |-> nodeId]
              /\ UNCHANGED <<issued, now, deleted>>

NextFault == AddFault \/ DeleteFault \/ EditFault \/ Corrupt

SpecFault == Init /\ [][NextFault]_vars

\* ------------------------------------------------------ overlapping calls
\* A server action as the steps the backend sees: its read, if it has one,
\* and then the commands of its batch, one at a time in submission order.
\* Between two steps of one client the other client may take steps.
ConcEdits == {W_http \o Sp \o W_abc, Word(1)}

\* The other call, if any, that is between its read and the end of its batch
\* on nodeId while client p reads: its serial number and whether none of its
\* commands has been applied yet.
Overlap(p, nodeId) ==
    LET others == {q \in Clients \ {p} :
                      calls[q].pc = "exec" /\ calls[q].nodeId = nodeId}
    IN  IF others = {} THEN [serial |-> 0, unsent |-> FALSE]
        ELSE LET q == CHOOSE q \in others : TRUE
             IN  [serial |-> calls[q].serial, unsent |-> calls[q].next = 1]

\* A call that has built its batch; after is the serial number of the call
\* the client made before it.
Submitted(p, op, nodeId, content, batch, seen) ==
    [pc |-> "exec", op |-> op, serial |-> now + 1, nodeId |-> nodeId,
     content |-> content, batch |-> batch, next |-> 1, seen |-> seen,
     overlaps |-> Overlap(p, nodeId),
     after |-> IF calls[p].pc = "idle" THEN 0 ELSE calls[p].serial]

\* A call that has returned.
Finished(call, success, message) ==
    [pc |-> "done", op |-> call.op, serial |-> call.serial,
     nodeId |-> call.nodeId, content |-> call.content, seen |-> call.seen,
     overlaps |-> call.overlaps, after |-> call.after,
     success |-> success, message |-> message]

CanStart(p, nodeId, alone) ==
    /\ calls[p].pc \in {"idle", "done"}
    /\ now < MaxCalls
    /\ alone => Overlap(p, nodeId).serial = 0

\* addNodeAction up to pipeline.exec().
BeginAdd(p) ==
    /\ CanStart(p, BadId, FALSE)
    /\ \E nodeId \in uuidv4 :
          /\ calls' = [calls EXCEPT ![p] =
                Submitted(p, "add", nodeId, W_abc,
                          AddBatch(NewNode(nodeId, W_abc, now + 1)), Null)]
          /\ issued' = issued \cup {nodeId}
    /\ now' = now + 1
    /\ UNCHANGED <<db, faults, deleted, lastOp, tok>>

\* deleteNodeAction or editNodeAction from its HGETALL up to pipeline.exec().
BeginOn(p, op, nodeId, content, alone) ==
    /\ CanStart(p, nodeId, alone)
    /\ LET node == parseNode(db.node[nodeId])
           call == Submitted(p, op, nodeId, content,
                             IF node = Null THEN <<>>
                             ELSE IF op = "delete" THEN DeleteBatch(nodeId, node)
                             ELSE EditBatch(nodeId, content, node),
                             node)
       IN  calls' = [calls EXCEPT ![p] =
                       IF node = Null
                       THEN Finished(call, FALSE, "Node not found.")
                       ELSE call]
    /\ now' = now + 1
    /\ UNCHANGED <<db, issued, faults, deleted, lastOp, tok>>

BeginDelete(p, alone) ==
    \E nodeId \in NodeIds : BeginOn(p, "delete", nodeId, <<>>, alone)

BeginEdit(p, alone) ==
    \E nodeId \in NodeIds, content \in ConcEdits :
        BeginOn(p, "edit", nodeId, content, alone)

\* The backend applies the next command of the batch of p; after the last
\* one exec() resolves and the call returns success.
ApplyNext(p) ==
    /\ calls[p].pc = "exec"
    /\ db' = Apply(db, calls[p].batch[calls[p].next])
    /\ IF calls[p].next < Len(calls[p].batch)
       THEN /\ calls' = [calls EXCEPT ![p].next = @ + 1]
            /\ UNCHANGED deleted
       ELSE /\ calls' = [calls EXCEPT ![p] =
                           Finished(@, TRUE,
                                    CASE @.op = "add" -> "Node added!"
                                      [] @.op = "delete" -> "Node deleted."
                                      [] OTHER -> "Node updated.")]
            /\ deleted' = IF calls[p].op = "delete"
                          THEN deleted \cup {calls[p].nodeId} ELSE deleted
    /\ UNCHANGED <<issued, now, faults, lastOp, tok>>

\* Any two calls may overlap.
NextConc ==
    \E p \in Clients :
        \/ BeginAdd(p)
        \/ BeginDelete(p, FALSE)
        \/ BeginEdit(p, FALSE)
        \/ ApplyNext(p)

SpecConc == Init /\ [][NextConc]_vars

\* Calls overlap, but never two on one id.
NextSteps ==
    \E p \in Clients :
        \/ BeginAdd(p)
        \/ BeginDelete(p, TRUE)
        \/ BeginEdit(p, TRUE)
        \/ ApplyNext(p)

SpecSteps == Init /\ [][NextSteps]_vars

\* ------------------------------------------------- reads of a faulty store
\* What a try block comes to: a value, or an exception on its way out.
Value(v) == [thrown |-> FALSE, value |-> v]
Thrown == [thrown |-> TRUE]

\* Mutation: a catch block that throws what it caught.
Catch_Rethrow(outcome, fallback) == outcome

\* catch (error) { ...; return fallback; }
Catch(outcome, fallback) == IF outcome.thrown THEN Value(fallback) ELSE outcome

\* results.map(...).filter(...).sort(...): the commands at the positions in
\* failed answered with an error.
MapResults(s, ids, failed) ==
    LET results == [i \in 1..Len(ids) |->
                       IF i \in failed THEN Null ELSE parseNode(s.node[ids[i]])]
    IN  SortNodes(SelectSeq(results, LAMBDA node : node # Null))

\* The try block of getAllNodes: SMEMBERS rejects ("read"), exec rejects
\* ("reject"), or both answer, some HGETALL with an error ("errors").
TryGetAllNodes(s, nodeIds, fault, failed) ==
    IF fault = "read" THEN Thrown
    ELSE IF Len(nodeIds) = 0 THEN Value(<<>>)
    ELSE IF fault = "reject" THEN Thrown
    ELSE Value(MapResults(s, nodeIds, failed))

\* The try block of searchNodes: SUNION rejects ("read"), exec rejects
\* ("reject"), or both answer.
TrySearchNodes(s, matchingNodeIds, fault, failed) ==
    IF fault = "read" THEN Thrown
    ELSE IF Len(matchingNodeIds) = 0 THEN Value(<<>>)
    ELSE IF fault = "reject" THEN Thrown
    ELSE Value(MapResults(s, matchingNodeIds, failed))

\* The positions of the HGETALLs that answer with an error.
FailedReads(ids, fault) ==
    IF fault = "errors" THEN {{i} : i \in 1..Len(ids)} ELSE {{}}

ReadContents == {W_abc, W_http \o Sp \o W_abc}
ReadQueries == {Sp, W_ab, W_abc}

\* getAllNodes as a call: the order SMEMBERS answers in and the HGETALLs that
\* fail are the backend's choice. A read changes nothing in the store, so its
\* faults are not counted.
ListCall(faultKinds) ==
    \E fault \in faultKinds, nodeIds \in Orders(db.nodes) :
        \E failed \in FailedReads(nodeIds, fault) :
            /\ lastOp' = [op |-> "list", fault |-> fault, ids |-> nodeIds,
                          failed |-> failed,
                          outcome |-> Catch(TryGetAllNodes(db, nodeIds, fault,
                                                           failed), <<>>)]
            /\ UNCHANGED <<db, issued, now, faults, deleted, tok, calls>>

\* searchNodes as a call; it returns before its try block for a query
\* without a term.
SearchCall(faultKinds) ==
    \E fault \in faultKinds, query \in ReadQueries :
        \E matchingNodeIds \in Orders(MatchingNodeIds(db, query)) :
            \E failed \in FailedReads(matchingNodeIds, fault) :
                /\ IsBlank(query) \/ Len(searchTerms(query)) = 0
                      => fault = "none"
                /\ lastOp' = [op |-> "search", fault |-> fault,
                              query |-> query, ids |-> matchingNodeIds,
                              failed |-> failed,
                              outcome |->
                                  IF IsBlank(query) \/ Len(searchTerms(query)) = 0
                                  THEN Value(<<>>)
                                  ELSE Catch(TrySearchNodes(db, matchingNodeIds,
                                                            fault, failed), <<>>)]
                /\ UNCHANGED <<db, issued, now, faults, deleted, tok, calls>>

\* Listing a store in which creates may fall into one millisecond, a create
\* may lose one command of its batch and a record may have been made
\* unparsable.
AddList == \E content \in ReadContents, createdAt \in {now, now + 1},
              fault \in {"none", "errors"} :
              addNodeAction(content, createdAt, fault) /\ Charge(fault)

DeleteList == \E nodeId \in NodeIds :
                 deleteNodeAction(nodeId, "none") /\ Charge("none")

ListList == ListCall({"none", "errors"})

NextList == AddList \/ DeleteList \/ Corrupt \/ ListList

SpecList == Init /\ [][NextList]_vars

\* Every operation against a backend whose round trips may fail; the nodes
\* are created from one content and updated to either.
AddRead == \E fault \in {"none", "reject"} :
              addNodeAction(W_abc, now + 1, fault) /\ Charge(fault)

DeleteRead == \E nodeId \in NodeIds, fault \in {"none", "read", "reject"} :
                 deleteNodeAction(nodeId, fault) /\ Charge(fault)

EditRead == \E nodeId \in NodeIds, content \in ReadContents,
                fault \in {"none", "read", "reject"} :
               editNodeAction(nodeId, content, fault) /\ Charge(fault)

ListRead == ListCall({"none", "read", "reject"})

SearchRead == SearchCall({"none", "read", "reject"})

NextRead ==
    AddRead \/ DeleteRead \/ EditRead \/ Corrupt \/ ListRead \/ SearchRead

SpecRead == Init /\ [][NextRead]_vars

\* ------------------------------------------------------- the keyword diff
\* Creates and updates with contents of which some yield the same keyword
\* set: "abc" and "abc abc", "http abc" and "abc http". tok keeps the two
\* keyword lists the last update compared.
DiffContents ==
    { W_abc, W_abc \o Sp \o W_abc,
      W_http \o Sp \o W_abc, W_abc \o Sp \o W_http }

AddDiff == \E content \in DiffContents :
              /\ addNodeAction(content, now + 1, "none")
              /\ tok' = [stage |-> "off"]
              /\ UNCHANGED <<faults, calls>>

EditDiff == \E nodeId \in NodeIds, content \in DiffContents :
               /\ editNodeAction(nodeId, content, "none")
               /\ tok' = IF parseNode(db.node[nodeId]) = Null
                         THEN [stage |-> "off"]
                         ELSE [stage |-> "diff",
                               oldKeywords |-> parseNode(db.node[nodeId]).keywords,
                               newKeywords |-> extractKeywords(content)]
               /\ UNCHANGED <<faults, calls>>

NextDiff == AddDiff \/ EditDiff

SpecDiff == Init /\ [][NextDiff]_vars

\* ------------------------------------------------------------ the tokenizer
\* The pure part of the calls, applied to one text: addNodeAction builds its
\* node from it, searchNodes its search terms.
InitTok ==
    /\ Init!1 /\ Init!2 /\ Init!3 /\ Init!4 /\ Init!5 /\ Init!6 /\ Init!8
    /\ tok \in {[stage |-> "text", text |-> text] : text \in TokTexts}

BuildNode ==
    /\ tok.stage = "text"
    /\ ContentValid(tok.text)
    /\ tok' = [stage |-> "node", text |-> tok.text,
               node |-> NewNode(1, tok.text, 0)]
    /\ UNCHANGED <<db, issued, now, faults, deleted, lastOp, calls>>

BuildTerms ==
    /\ tok.stage = "text"
    /\ tok' = [stage |-> "terms", text |-> tok.text,
               blank |-> IsBlank(tok.text), terms |-> searchTerms(tok.text)]
    /\ UNCHANGED <<db, issued, now, faults, deleted, lastOp, calls>>

NextTok == BuildNode \/ BuildTerms

SpecTok == InitTok /\ [][NextTok]_vars

\* ------------------------------------------------------------------ claims
\* The ids whose node record exists.
Stored(s) == {id \in NodeIds : DOMAIN s.node[id] # {}}

\* The keywords that name a non-empty index set.
IndexedKeywords(s) == {p[1] : p \in s.keyword}

\* Every keyword a content string of the model yields.
AllKeywords ==
    UNION {Range(extractKeywords(content)) : content \in Contents \cup FaultContents}

\* The ids of the nodes of a returned list.
IdsOf(list) == {list[i].id : i \in 1..Len(list)}

\* The record of id is absent or holds a keywords field that is no JSON.
Unreadable(s, id) ==
    \/ DOMAIN s.node[id] = {}
    \/ "keywords" \in DOMAIN s.node[id] /\ s.node[id].keywords = MalformedJson

\* A call by its name that reported success, seen from the state it left.
Succeeded(op) == lastOp.op = op /\ lastOp.success

\* C1: after every completed operation of a fault-free run of whole
\* operations, for every stored node n and keyword k, k is among n's stored
\* keywords exactly if n's id is a member of the index set keyword:k.
C1_IndexAgreesWithRecords ==
    \A id \in Stored(db) :
        LET node == parseNode(db.node[id])
        IN  /\ node # Null
            /\ \A k \in Range(node.keywords) \cup IndexedKeywords(db) :
                   k \in Range(node.keywords) <=> id \in KeywordMembers(db, k)

\* An edit that dropped the keyword http of a url node left a store with two
\* stored nodes.
C1_Witness ==
    /\ Succeeded("edit")
    /\ Cardinality(Stored(db)) = 2
    /\ db.node[lastOp.nodeId].type = "url"
    /\ W_http \notin Range(parseNode(db.node[lastOp.nodeId]).keywords)

\* C2: after every completed operation of a fault-free run of whole
\* operations, an id is in the registry set 'nodes' exactly if the node
\* record node:<id> exists.
C2_RegistryMatchesRecords ==
    \A id \in NodeIds : id \in db.nodes <=> id \in Stored(db)

\* A delete left one node stored and one id without a record.
C2_Witness ==
    /\ Succeeded("delete")
    /\ Cardinality(db.nodes) = 1
    /\ Cardinality(issued) = 2

\* C3: after a successful create(c), every search(k) for a keyword k of
\* extractKeywords(c) returns a list that includes the created node.
C3_CreatedNodeIsFound ==
    Succeeded("add") =>
        \A k \in Range(extractKeywords(lastOp.content)) :
            \A result \in SearchResults(db, k) : lastOp.nodeId \in IdsOf(result)

\* C4: once delete(id) has reported success, no search for a keyword and no
\* list() returns the node, in the state the delete leaves (for the keywords
\* the node held) and in every later state (for every keyword), and the id is
\* one uuidv4 has handed out, so no later create gets it.
C4_DeletedNodeStaysGone ==
    [][/\ \A id \in deleted' :
              /\ id \in issued'
              /\ \A result \in ListResults(db') : id \notin IdsOf(result)
              /\ \A k \in AllKeywords \cup IndexedKeywords(db') :
                     \A result \in SearchResults(db', k) : id \notin IdsOf(result)
       /\ (lastOp'.op = "delete" /\ lastOp'.success) =>
              /\ lastOp'.nodeId \in deleted'
              /\ \A k \in Range(parseNode(db.node[lastOp'.nodeId]).keywords) :
                     \A result \in SearchResults(db', k) :
                         lastOp'.nodeId \notin IdsOf(result)]_vars

\* A node that held a keyword was deleted and another node was created after.
C4_Witness ==
    /\ Succeeded("add")
    /\ deleted # {}
    /\ lastOp.nodeId \notin deleted
    /\ db.keyword # {}

\* C5: a successful update(id, newContent) leaves a store in which no search
\* for a keyword the node held and newContent does not yield returns the node,
\* and in which the id is in the index set of every keyword of newContent.
C5_EditMovesIndexEntries ==
    [][(lastOp'.op = "edit" /\ lastOp'.success) =>
          LET id == lastOp'.nodeId
              old == Range(parseNode(db.node[id]).keywords)
              new == Range(extractKeywords(lastOp'.content))
          IN  /\ \A k \in old \ new :
                     \A result \in SearchResults(db', k) : id \notin IdsOf(result)
              /\ \A k \in new : id \in KeywordMembers(db', k)]_vars

\* An edit replaced the keywords http and abc of a node by ab.
C5_Witness ==
    /\ Succeeded("edit")
    /\ db.node[lastOp.nodeId].type = "url"
    /\ parseNode(db.node[lastOp.nodeId]).keywords = <<W_ab>>

\* C6: a successful update(id, newContent) sets the record's content to
\* newContent and its keywords to extractKeywords(newContent), and leaves the
\* record's id, createdAt and type, the registry set and every other record
\* as they were.
C6_EditFrame ==
    [][(lastOp'.op = "edit" /\ lastOp'.success) =>
          LET id == lastOp'.nodeId
          IN  /\ db'.node[id].content = lastOp'.content
              /\ parseNode(db'.node[id]).keywords = extractKeywords(lastOp'.content)
              /\ db'.node[id].id = db.node[id].id
              /\ db'.node[id].createdAt = db.node[id].createdAt
              /\ db'.node[id].type = db.node[id].type
              /\ DOMAIN db'.node[id] = DOMAIN db.node[id]
              /\ db'.nodes = db.nodes
              /\ \A other \in NodeIds \ {id} : db'.node[other] = db.node[other]]_vars

\* An edit gave a url node a content that does not start with http, next to
\* another stored node.
C6_Witness ==
    /\ Succeeded("edit")
    /\ db.node[lastOp.nodeId].type = "url"
    /\ ~StartsWithHttp(db.node[lastOp.nodeId].content)
    /\ Cardinality(db.nodes) = 2

\* C7: delete(id) and update(id, content) on a well-formed id whose record is
\* absent or does not parse, the read having answered, return the failure
\* "Node not found." and leave the registry set, every index set and every
\* record as they were.
C7_NotFoundChangesNothing ==
    [][(/\ lastOp'.op \in {"delete", "edit"}
        /\ IsUuid(lastOp'.nodeId)
        /\ lastOp'.op = "edit" => ContentValid(lastOp'.content)
        /\ lastOp'.fault # "read"
        /\ Unreadable(db, lastOp'.nodeId)) =>
          /\ ~lastOp'.success
          /\ lastOp'.message = "Node not found."
          /\ db' = db]_vars

\* A delete answered "Node not found." for a record that is stored and does
\* not parse.
C7_Witness ==
    /\ lastOp.op = "delete"
    /\ lastOp.message = "Node not found."
    /\ lastOp.nodeId \in Stored(db)
    /\ Unreadable(db, lastOp.nodeId)

\* C8: create, update and delete report a failure whenever a command of the
\* batch they submitted did not succeed.
C8_BatchFailureIsReported ==
    (lastOp.op \in {"add", "edit", "delete"} /\ lastOp.fault \in {"errors", "reject"})
        => ~lastOp.success

\* C9: create with a content shorter than 3 characters, and update with such
\* a content or with an id that is no UUID, return their validation failure
\* and leave the registry set, every index set and every record as they were.
C9_ValidationChangesNothing ==
    [][/\ (lastOp'.op = "add" /\ Len(lastOp'.content) < MinContentLength) =>
              /\ lastOp'.success = FALSE
              /\ lastOp'.message = "Content must be at least 3 characters."
              /\ db' = db
       /\ (/\ lastOp'.op = "edit"
           /\ \/ Len(lastOp'.content) < MinContentLength
              \/ lastOp'.nodeId \notin NodeIds) =>
              /\ lastOp'.success = FALSE
              /\ lastOp'.message = "Invalid data."
              /\ db' = db]_vars

\* A create with a 2-character content was rejected while a node was stored.
C9_Witness ==
    /\ lastOp.op = "add"
    /\ lastOp.content = W_12
    /\ ~lastOp.success
    /\ db.nodes # {}

\* C10: search(query) returns the stored nodes that hold at least one search
\* term of the query as a keyword, each once, as parsed from their records,
\* with createdAt never increasing along the list.
C10_SearchReturnsUnionNewestFirst ==
    lastOp.op = "search" =>
        LET result == lastOp.result
            terms == Range(searchTerms(lastOp.query))
        IN  /\ IdsOf(result) =
                   {id \in Stored(db) :
                       Range(parseNode(db.node[id]).keywords) \cap terms # {}}
            /\ \A i, j \in 1..Len(result) : result[i].id = result[j].id => i = j
            /\ \A i \in 1..Len(result) : result[i] = parseNode(db.node[result[i].id])
            /\ \A i, j \in 1..Len(result) :
                   i < j => result[i].createdAt >= result[j].createdAt

\* The two-term query "http abc" returned two nodes that share the keyword
\* abc, the newer first, the older one without the keyword http.
C10_Witness ==
    /\ lastOp.op = "search"
    /\ lastOp.query = W_http \o Sp \o W_abc
    /\ Len(lastOp.result) = 2
    /\ lastOp.result[1].createdAt > lastOp.result[2].createdAt
    /\ W_http \in Range(lastOp.result[1].keywords)
    /\ W_http \notin Range(lastOp.result[2].keywords)


\* ------------------------------------------------------ the tokenizer's claims
\* The words of a content, lower-cased and with the punctuation stripped,
\* before any filter.
SourceTokens(content) ==
    LET words == split(toLowerCase(content))
    IN  [i \in 1..Len(words) |-> StripPunctuation(words[i])]

\* extractKeywords without its slice(0, 10).
UncappedKeywords(content) ==
    LET words == SelectSeq(split(toLowerCase(content)), KeepsWord)
    IN  Unique([i \in 1..Len(words) |-> StripPunctuation(words[i])])

\* The place of the first occurrence of x in list.
FirstIndex(list, x) ==
    CHOOSE i \in 1..Len(list) :
        list[i] = x /\ \A j \in 1..(i - 1) : list[j] # x

\* C11: for every query, the index sets searchNodes consults are exactly
\* those named by extractKeywords of the query without its cap.
C11_SearchUsesIndexingRule ==
    tok.stage = "terms" =>
        Range(tok.terms) = Range(UncappedKeywords(tok.text))

\* C13: for every content of at least 3 characters the keywords of the node
\* built from it hold no duplicate, no entry of length <= 2, no purely
\* numeric entry and at most 10 entries, in the order of first occurrence.
C13_KeywordsAreWellFormed ==
    tok.stage = "node" =>
        LET keywords == tok.node.keywords
            tokens == SourceTokens(tok.text)
        IN  /\ \A i, j \in 1..Len(keywords) :
                  i # j => keywords[i] # keywords[j]
            /\ \A i \in 1..Len(keywords) :
                  /\ Len(keywords[i]) > MinWordLength
                  /\ ~IsNumeric(keywords[i])
                  /\ keywords[i] \in Range(tokens)
            /\ Len(keywords) <= KeywordCap
            /\ \A i, j \in 1..Len(keywords) :
                  i < j => FirstIndex(tokens, keywords[i])
                             < FirstIndex(tokens, keywords[j])

\* C14: the keywords of a node are the first 10 distinct qualifying tokens
\* of its content in source order, so a content with at least 10 distinct
\* qualifying tokens yields exactly 10 keywords.
C14_DedupeBeforeTruncation ==
    tok.stage = "node" =>
        /\ tok.node.keywords = Slice(UncappedKeywords(tok.text), KeywordCap)
        /\ Len(UncappedKeywords(tok.text)) >= KeywordCap
              => Len(tok.node.keywords) = KeywordCap


\* C15 as stated: the node created from Scenario A has type "url" and
\* keywords drawn from {check, out, https, example, com, for, fast,
\* databases}, and the type given at creation is "url" exactly for a content
\* that carries an http URL.
C15_ScenarioAIsUrl ==
    tok.stage = "node" =>
        LET named == { <<"c", "h", "e", "c", "k">>,
                       <<"o", "u", "t">>,
                       <<"h", "t", "t", "p", "s">>,
                       <<"e", "x", "a", "m", "p", "l", "e">>,
                       <<"c", "o", "m">>,
                       <<"f", "o", "r">>,
                       <<"f", "a", "s", "t">>,
                       <<"d", "a", "t", "a", "b", "a", "s", "e", "s">> }
        IN  /\ tok.text = ScenarioA =>
                  /\ tok.node.type = "url"
                  /\ Range(tok.node.keywords) \subseteq named
            /\ tok.node.type = "url" <=>
                  \E i \in 1..(Len(tok.text) - 3) :
                      <<tok.text[i], tok.text[i + 1],
                        tok.text[i + 2], tok.text[i + 3]>>
                          = <<"h", "t", "t", "p">>
            /\ tok.node.type \in {"url", "note"}

\* C15, amended: the type given at creation is "url" exactly when the
\* content begins with the four characters h t t p, and "note" otherwise;
\* the node created from Scenario A, which begins with "Check", has type
\* "note" and the keywords check, out, https://examplecom, for, fast,
\* databases.
C15_TypeFollowsPrefix ==
    tok.stage = "node" =>
        /\ tok.node.type = "url" <=>
              /\ Len(tok.text) >= 4
              /\ tok.text[1] = "h" /\ tok.text[2] = "t"
              /\ tok.text[3] = "t" /\ tok.text[4] = "p"
        /\ tok.node.type \in {"url", "note"}
        /\ tok.text = ScenarioA =>
              /\ tok.node.type = "note"
              /\ tok.node.keywords =
                    << <<"c", "h", "e", "c", "k">>,
                       <<"o", "u", "t">>,
                       <<"h", "t", "t", "p", "s", ":", "/", "/", "e", "x", "a", "m", "p", "l", "e", "c", "o", "m">>,
                       <<"f", "o", "r">>,
                       <<"f", "a", "s", "t">>,
                       <<"d", "a", "t", "a", "b", "a", "s", "e", "s">> >>

C15_Witness ==
    /\ tok.stage = "node"
    /\ tok.text = ScenarioA
    /\ tok.node.type = "note"


\* --------------------------------------------------- the keyword diff's claim
\* C17: the diff of an update is toAdd = new \ old and toRemove = old \ new,
\* the two are disjoint; an update whose content yields the stored keyword
\* set issues the record write only and leaves every index set unchanged,
\* and an update with the stored content leaves the whole store unchanged.
C17_DiffIsSetDifference ==
    [][(lastOp'.op = "edit" /\ lastOp'.success) =>
        LET nodeId == lastOp'.nodeId
            oldNode == parseNode(db.node[nodeId])
            oldKeywords == Unique(tok'.oldKeywords)
            newKeywords == Unique(tok'.newKeywords)
            toAdd == KeywordsToAdd(oldKeywords, newKeywords)
            toRemove == KeywordsToRemove(oldKeywords, newKeywords)
        IN  /\ Range(toAdd) = Range(newKeywords) \ Range(oldKeywords)
            /\ Range(toRemove) = Range(oldKeywords) \ Range(newKeywords)
            /\ Range(toAdd) \cap Range(toRemove) = {}
            /\ Range(oldKeywords) = Range(newKeywords) =>
                  /\ toAdd = <<>> /\ toRemove = <<>>
                  /\ Len(EditBatch(nodeId, lastOp'.content, oldNode)) = 1
                  /\ db'.keyword = db.keyword
                  /\ db'.nodes = db.nodes
            /\ oldNode.content = lastOp'.content => db' = db
    ]_vars

\* An update went through whose content yields the stored keyword set from
\* another text, and the index still names the node under each keyword.
C17_Witness ==
    /\ lastOp.op = "edit" /\ lastOp.success
    /\ tok.stage = "diff"
    /\ Range(tok.oldKeywords) = Range(tok.newKeywords)
    /\ tok.oldKeywords # tok.newKeywords
    /\ \A i \in 1..Len(tok.newKeywords) :
          lastOp.nodeId \in KeywordMembers(db, tok.newKeywords[i])


\* ------------------------------------------------------- the reads' claims
\* The place of id in the order the backend answered in.
PlaceOf(ids, id) == CHOOSE i \in 1..Len(ids) : ids[i] = id

\* C12: list() returns exactly the nodes whose id is in the registry and
\* whose record exists and parses, ordered by createdAt descending with ties
\* in retrieval order, and the empty list for an empty registry; after
\* successful operations only, these are the nodes created and not deleted.
C12_ListReturnsRegisteredNodes ==
    (lastOp.op = "list" /\ lastOp.fault = "none") =>
        LET result == lastOp.outcome.value
        IN  /\ ~lastOp.outcome.thrown
            /\ IdsOf(result) = {id \in db.nodes : ~Unreadable(db, id)}
            /\ Len(result) = Cardinality(IdsOf(result))
            /\ \A i \in 1..Len(result) :
                  /\ result[i].content = db.node[result[i].id].content
                  /\ result[i].type = db.node[result[i].id].type
                  /\ result[i].createdAt = db.node[result[i].id].createdAt
                  /\ JsonStringify(result[i].keywords)
                        = db.node[result[i].id].keywords
            /\ \A i, j \in 1..Len(result) :
                  i < j =>
                     \/ result[i].createdAt > result[j].createdAt
                     \/ /\ result[i].createdAt = result[j].createdAt
                        /\ PlaceOf(lastOp.ids, result[i].id)
                              < PlaceOf(lastOp.ids, result[j].id)
            /\ db.nodes = {} => result = <<>>
            /\ faults = 0 => IdsOf(result) = issued \ deleted

\* list() answered two nodes of one createdAt, the later id first because
\* the backend named it first.
C12_Witness ==
    /\ lastOp.op = "list" /\ lastOp.fault = "none"
    /\ Len(lastOp.outcome.value) >= 2
    /\ lastOp.outcome.value[1].createdAt = lastOp.outcome.value[2].createdAt
    /\ lastOp.outcome.value[1].id > lastOp.outcome.value[2].id


\* C18: no operation lets a storage or parse failure out: when a round trip
\* to the backend fails, create, update and delete return a failure result
\* and list and search return the empty list, and no read path answers with
\* a record whose keywords field is malformed.
C18_NoFailureEscapes ==
    /\ lastOp.op \in {"list", "search"} =>
          /\ ~lastOp.outcome.thrown
          /\ lastOp.fault \in {"read", "reject"} => lastOp.outcome.value = <<>>
          /\ \A i \in 1..Len(lastOp.outcome.value) :
                ~Unreadable(db, lastOp.outcome.value[i].id)
    /\ lastOp.op \in {"add", "delete", "edit"} =>
          /\ lastOp.success \in BOOLEAN
          /\ lastOp.fault \in {"read", "reject"} =>
                ~lastOp.success /\ lastOp.message = "Database error."
          /\ (lastOp.op # "add" /\ lastOp.fault = "none"
              /\ Unreadable(db, lastOp.nodeId) /\ ~lastOp.success) =>
                lastOp.message = "Node not found."

\* A search whose round trip failed answered the empty list while the index
\* names a node for its query.
C18_Witness ==
    /\ lastOp.op = "search" /\ lastOp.fault = "reject"
    /\ ~lastOp.outcome.thrown
    /\ lastOp.outcome.value = <<>>
    /\ MatchingNodeIds(db, lastOp.query) # {}


\* ------------------------------------------------- overlapping calls' claims
\* The keywords under which the index names id.
IndexOf(s, id) == {k \in IndexedKeywords(s) : id \in KeywordMembers(s, k)}

\* The keywords field of the record of id, read as parseNode reads it.
StoredKeywords(s, id) == Range(parseNode(s.node[id]).keywords)

\* Client p read its node while no other call on the id was under way,
\* client q, whose call before this one began before p read, read it while
\* the call of p was between its read and its first command, and both calls
\* have returned.
BothReadFirst(p, q, op1, op2) ==
    /\ p # q
    /\ calls[p].pc = "done" /\ calls[p].op = op1 /\ calls[p].success
    /\ calls[q].pc = "done" /\ calls[q].op = op2 /\ calls[q].success
    /\ calls[p].overlaps.serial = 0
    /\ calls[q].after < calls[p].serial
    /\ calls[q].overlaps.serial = calls[p].serial
    /\ calls[q].overlaps.unsent

\* C16: two updates of one id that both read the record before either
\* submits leave the index with every keyword either of them added and
\* without every keyword either of them removed, and the record with the
\* keywords of one of them; so when each writer brings a keyword the other
\* does not have, the index matches neither writer and not the record.
C16_LostUpdate ==
    \A p, q \in Clients :
        BothReadFirst(p, q, "edit", "edit") =>
            LET id == calls[p].nodeId
                old == Range(calls[p].seen.keywords)
                first == Range(extractKeywords(calls[p].content))
                second == Range(extractKeywords(calls[q].content))
                index == IndexOf(db, id)
            IN  /\ calls[q].seen = calls[p].seen
                /\ StoredKeywords(db, id) \in {first, second}
                /\ (first \cup second) \ old \subseteq index
                /\ index \cap ((old \ first) \cup (old \ second)) = {}
                /\ (first \ (old \cup second) # {}
                    /\ second \ (old \cup first) # {}) =>
                      /\ index # first
                      /\ index # second
                      /\ index # StoredKeywords(db, id)

\* Both overlapping updates have returned success and the index of the id
\* matches neither writer's keywords and not the record's.
C16_Witness ==
    \E p, q \in Clients :
        /\ BothReadFirst(p, q, "edit", "edit")
        /\ IndexOf(db, calls[p].nodeId)
              # Range(extractKeywords(calls[p].content))
        /\ IndexOf(db, calls[p].nodeId)
              # Range(extractKeywords(calls[q].content))
        /\ IndexOf(db, calls[p].nodeId) # StoredKeywords(db, calls[p].nodeId)


\* C19: with the commands of a batch applied one at a time and no other
\* writer on the same id, in every state, the ones in the middle of a batch
\* included, every id in the registry or in a keyword index set has a node
\* record; a create's batch begins with the record write and a delete's
\* batch ends with the record's deletion, after its removes.
C19_NoOrphanDuringBatch ==
    /\ \A id \in NodeIds :
          (id \in db.nodes \/ IndexOf(db, id) # {}) => DOMAIN db.node[id] # {}
    /\ \A p \in Clients :
          calls[p].pc = "exec" =>
              LET batch == calls[p].batch
              IN  /\ calls[p].op = "add" =>
                        /\ batch[1].cmd = "hset"
                        /\ \A i \in 2..Len(batch) : batch[i].cmd = "sadd"
                  /\ calls[p].op = "delete" =>
                        /\ batch[Len(batch)].cmd = "del"
                        /\ \A i \in 1..(Len(batch) - 1) : batch[i].cmd = "srem"

\* A delete has applied every remove of its batch and not yet the deletion
\* of the record: the id is in no set and its record is still there.
C19_Witness ==
    \E p \in Clients :
        /\ calls[p].pc = "exec" /\ calls[p].op = "delete"
        /\ calls[p].next = Len(calls[p].batch)
        /\ calls[p].next > 2
        /\ calls[p].nodeId \notin db.nodes
        /\ IndexOf(db, calls[p].nodeId) = {}
        /\ DOMAIN db.node[calls[p].nodeId] # {}

\* Client a read the record of its id while no other call on the id was
\* under way, and client b, whose call before this one began before that,
\* read it while the call of a was under way.
ReadDuring(a, b) ==
    /\ calls[a].overlaps.serial = 0
    /\ calls[b].overlaps.serial = calls[a].serial
    /\ calls[b].after < calls[a].serial

\* An update by client p and a delete by client q of one id, one of which
\* read the record while the other was under way, have both returned and the
\* delete reported success.
UpdateMetDelete(p, q) ==
    /\ p # q
    /\ calls[p].pc = "done" /\ calls[p].op = "edit"
    /\ calls[q].pc = "done" /\ calls[q].op = "delete" /\ calls[q].success
    /\ calls[p].nodeId = calls[q].nodeId
    /\ ReadDuring(p, q) \/ ReadDuring(q, p)

\* C20 as stated: once an update and a delete of one id that overlapped have
\* both completed and the delete reported success, no record of the id
\* exists and the id is a member of no keyword index set.
C20_DeletedStaysDeleted ==
    \A p, q \in Clients :
        UpdateMetDelete(p, q) =>
            /\ DOMAIN db.node[calls[p].nodeId] = {}
            /\ IndexOf(db, calls[p].nodeId) = {}

\* C20, amended: once both have completed and the delete reported success,
\* the id is not in the registry, so list() returns nothing for it; what may
\* exist is a record of the update's two fields, content and keywords, which
\* a search can reach through the index entries the update added.
C20_DeletedStaysUnlisted ==
    \A p, q \in Clients :
        UpdateMetDelete(p, q) =>
            LET id == calls[p].nodeId
            IN  /\ id \notin db.nodes
                /\ \A nodeIds \in Orders(db.nodes) :
                      \A i \in 1..Len(getAllNodes(db, nodeIds)) :
                          getAllNodes(db, nodeIds)[i].id # id
                /\ DOMAIN db.node[id] \in {{}, {"content", "keywords"}}
                /\ DOMAIN db.node[id] # {} =>
                      /\ calls[p].success
                      /\ db.node[id].content = calls[p].content

\* The update's record write came after the delete's last command: the
\* deleted id has a record again, of two fields, and index entries.
C20_Witness ==
    \E p, q \in Clients :
        /\ UpdateMetDelete(p, q)
        /\ calls[p].nodeId \notin db.nodes
        /\ DOMAIN db.node[calls[p].nodeId] = {"content", "keywords"}
        /\ IndexOf(db, calls[p].nodeId) # {}

====
